---- MODULE Spec2Model ----
(***************************************************************************)
(* Five Towers rules engine: the bidding controller, the building          *)
(* controller, the legality rules, the scoring engine and the deck manager,*)
(* as a state machine over one GameState.  Every controller function is an *)
(* operator from a GameState record (and its arguments) to the GameState   *)
(* it leaves behind; a handler that returns a bool yields [ret, gs].       *)
(* Spec is the whole game over a small deck; BuildSpec is the building of  *)
(* one hand won with the opening bid of 5, over hands with every kind of   *)
(* card.                                                                   *)
(***************************************************************************)
EXTENDS Integers, Sequences, FiniteSets, TLC

\* ---------------------------------------------------------------- bounds
NumPlayers == 3
NumCards == 2
HandSize == 3
NumBuildCards == 6
DeckExtra == 3
NumLoose == 2

\* ------------------------------------------------------ program constants
MaxBid == 5
DisplayCount == 5
None == -1

TowerSuit == <<"sand", "stone", "vegetation", "water", "fire">>
Suits == {TowerSuit[i] : i \in 1..Len(TowerSuit)}

LOBBY == "lobby"
BIDDING == "bidding"
BUILDING == "building"
GAME_OVER == "game_over"

PlayerIndexes == 0..(NumPlayers - 1)
Cards == 1..NumCards

\* The values of the cards of the deck, by card identity: a slice of the
\* base set (values 0..15 of one suit), the special values first.
DeckValues == <<7, 0, 9, 8, 3, 12, 5, 1, 15, 2, 4, 6, 10, 11, 13, 14>>
CardValue(c) == DeckValues[((c - 1) % Len(DeckValues)) + 1]

is_tower_top(c) == CardValue(c) = 0
is_reset(c) == CardValue(c) = 8
is_wild(c) == CardValue(c) = 9

\* ----------------------------------------------------------------- Tower
top_card(tower) == IF Len(tower) = 0 THEN None ELSE tower[Len(tower)]

is_capped(tower) == top_card(tower) # None /\ is_tower_top(top_card(tower))

can_place_wild_first(tower, card) ==
    IF Len(tower) = 0 THEN TRUE
    ELSE IF is_wild(card) THEN TRUE
    ELSE IF is_tower_top(top_card(tower)) THEN FALSE
    ELSE IF is_reset(top_card(tower)) THEN TRUE
    ELSE CardValue(card) < CardValue(top_card(tower))

can_place_no_wild(tower, card) ==
    IF Len(tower) = 0 THEN TRUE
    ELSE IF is_tower_top(top_card(tower)) THEN FALSE
    ELSE IF is_reset(top_card(tower)) THEN TRUE
    ELSE CardValue(card) < CardValue(top_card(tower))

can_place(tower, card) ==
    IF Len(tower) = 0 THEN TRUE
    ELSE IF is_tower_top(top_card(tower)) THEN FALSE
    ELSE IF is_reset(top_card(tower)) THEN TRUE
    ELSE IF is_wild(card) THEN TRUE
    ELSE CardValue(card) < CardValue(top_card(tower))

\* ----------------------------------------------------------- PlayerState
NewPlayer ==
    [towers |-> [s \in Suits |-> <<>>],
     tear_down_pile |-> <<>>,
     current_bid |-> None,
     has_passed |-> FALSE]

\* ------------------------------------------------------------- GameState
NewGameState ==
    [phase |-> LOBBY,
     round_number |-> 0,
     deck |-> <<>>,
     display_cards |-> <<>>,
     discard_pile |-> <<>>,
     players |-> [p \in PlayerIndexes |-> NewPlayer],
     current_player_index |-> 0,
     current_high_bid |-> 0,
     high_bidder_index |-> None,
     auction_winner_index |-> None,
     cards_to_process |-> <<>>,
     trace |-> <<>>]

\* trace is not a field of the program's GameState: it lists the controller
\* functions the last accepted handler went through, in call order.
Log(gs, name) == [gs EXCEPT !.trace = Append(@, name)]
Fields(gs) == [gs EXCEPT !.trace = <<>>]

\* Indexes of the players who have not passed, in player order.
active_bidders(gs) == {p \in PlayerIndexes : ~gs.players[p].has_passed}

FirstOf(S) == CHOOSE p \in S : \A q \in S : p <= q

is_bidding_complete(gs) ==
    IF gs.phase # BIDDING THEN FALSE
    ELSE Cardinality(active_bidders(gs)) <= 1

advance_turn(gs) ==
    [gs EXCEPT !.current_player_index = (@ + 1) % NumPlayers]

\* ------------------------------------------------------------------ deck
Min(a, b) == IF a < b THEN a ELSE b

\* Pops up to count cards from the tail of the deck into the display row.
deal_display_cards(gs, count) ==
    LET n == Len(gs.deck)
        k == Min(count, n)
    IN [gs EXCEPT !.display_cards = [i \in 1..k |-> gs.deck[n - i + 1]],
                  !.deck = SubSeq(gs.deck, 1, n - k)]

cards_remaining(gs) == Len(gs.deck)

refill_deck_from_discard_keeps(gs, shuffled) ==
    IF Len(gs.discard_pile) = 0
    THEN [ret |-> FALSE, gs |-> gs]
    ELSE [ret |-> TRUE, gs |-> [gs EXCEPT !.deck = shuffled]]

\* shuffled is the order random.shuffle leaves the refilled deck in.
refill_deck_from_discard(gs, shuffled) ==
    IF Len(gs.discard_pile) = 0
    THEN [ret |-> FALSE, gs |-> gs]
    ELSE [ret |-> TRUE,
          gs |-> [gs EXCEPT !.deck = shuffled, !.discard_pile = <<>>]]

\* ----------------------------------------------------------------- rules
can_bid_ge(gs, player_index, amount) ==
    IF gs.phase # BIDDING THEN FALSE
    ELSE IF gs.current_player_index # player_index THEN FALSE
    ELSE IF gs.players[player_index].has_passed THEN FALSE
    ELSE IF amount < gs.current_high_bid THEN FALSE
    ELSE IF amount > MaxBid THEN FALSE
    ELSE TRUE

can_bid(gs, player_index, amount) ==
    IF gs.phase # BIDDING THEN FALSE
    ELSE IF gs.current_player_index # player_index THEN FALSE
    ELSE IF gs.players[player_index].has_passed THEN FALSE
    ELSE IF amount <= gs.current_high_bid THEN FALSE
    ELSE IF amount > MaxBid THEN FALSE
    ELSE TRUE

can_pass_phase_only(gs, player_index) == gs.phase = BIDDING

can_pass(gs, player_index) ==
    IF gs.phase # BIDDING THEN FALSE
    ELSE IF gs.current_player_index # player_index THEN FALSE
    ELSE IF gs.players[player_index].has_passed THEN FALSE
    ELSE TRUE

InSeq(x, s) == \E i \in 1..Len(s) : s[i] = x
Range(s) == {s[i] : i \in 1..Len(s)}

\* list.remove: drops the first occurrence of card.
RemoveFirst(s, card) ==
    LET i == CHOOSE j \in 1..Len(s) :
                 s[j] = card /\ \A k \in 1..(j - 1) : s[k] # card
    IN SubSeq(s, 1, i - 1) \o SubSeq(s, i + 1, Len(s))

can_place_card(gs, player_index, card, tower_suit) ==
    IF gs.phase # BUILDING THEN FALSE
    ELSE IF gs.auction_winner_index # player_index THEN FALSE
    ELSE IF ~InSeq(card, gs.cards_to_process) THEN FALSE
    ELSE can_place(gs.players[player_index].towers[tower_suit], card)

can_tear_down_any_phase(gs, player_index, tower_suit) ==
    IF gs.auction_winner_index # player_index THEN FALSE
    ELSE Len(gs.players[player_index].towers[tower_suit]) > 0

can_tear_down(gs, player_index, tower_suit) ==
    IF gs.phase # BUILDING THEN FALSE
    ELSE IF gs.auction_winner_index # player_index THEN FALSE
    ELSE Len(gs.players[player_index].towers[tower_suit]) > 0

\* range(current_high_bid + 1, 6)
get_legal_bids(gs, player_index) ==
    IF gs.phase # BIDDING THEN <<>>
    ELSE IF \/ gs.players[player_index].has_passed
            \/ gs.current_player_index # player_index
         THEN <<>>
    ELSE [i \in 1..(6 - (gs.current_high_bid + 1)) |-> gs.current_high_bid + i]

get_legal_placements(gs, player_index, card) ==
    IF gs.phase # BUILDING THEN <<>>
    ELSE IF gs.auction_winner_index # player_index THEN <<>>
    ELSE IF ~InSeq(card, gs.cards_to_process) THEN <<>>
    ELSE LET accepts(suit) ==
                 can_place(gs.players[player_index].towers[suit], card)
         IN SelectSeq(TowerSuit, accepts)

get_legal_tear_downs(gs, player_index) ==
    IF gs.phase # BUILDING THEN <<>>
    ELSE IF gs.auction_winner_index # player_index THEN <<>>
    ELSE LET standing(suit) == Len(gs.players[player_index].towers[suit]) > 0
         IN SelectSeq(TowerSuit, standing)

\* A call of a legality query on the GameState object: what it returns and the
\* GameState it leaves.  The queries read the state and fill a local list;
\* none of them assigns to a field of the state or of its players and towers.
call_can_bid(gs, player_index, amount) ==
    [ret |-> can_bid(gs, player_index, amount), gs |-> gs]

call_can_pass(gs, player_index) ==
    [ret |-> can_pass(gs, player_index), gs |-> gs]

call_can_place_card_takes(gs, player_index, card, tower_suit) ==
    [ret |-> can_place_card(gs, player_index, card, tower_suit),
     gs |-> IF InSeq(card, gs.cards_to_process)
            THEN [gs EXCEPT !.cards_to_process = RemoveFirst(@, card)]
            ELSE gs]

call_can_place_card(gs, player_index, card, tower_suit) ==
    [ret |-> can_place_card(gs, player_index, card, tower_suit), gs |-> gs]

call_can_tear_down(gs, player_index, tower_suit) ==
    [ret |-> can_tear_down(gs, player_index, tower_suit), gs |-> gs]

call_get_legal_bids(gs, player_index) ==
    [ret |-> get_legal_bids(gs, player_index), gs |-> gs]

call_get_legal_placements(gs, player_index, card) ==
    [ret |-> get_legal_placements(gs, player_index, card), gs |-> gs]

call_get_legal_tear_downs(gs, player_index) ==
    [ret |-> get_legal_tear_downs(gs, player_index), gs |-> gs]

is_bid_winning_bid_never(gs, amount) == amount > MaxBid

is_bid_winning_bid(gs, amount) == amount = MaxBid

\* --------------------------------------------------------------- bidding
discard_display_cards_lost(gs) ==
    [Log(gs, "discard_display_cards") EXCEPT !.display_cards = <<>>]

discard_display_cards(gs) ==
    [Log(gs, "discard_display_cards") EXCEPT
        !.discard_pile = gs.discard_pile \o gs.display_cards,
        !.display_cards = <<>>]

start_new_round_keeps_bid(gs) ==
    LET reset == [Log(gs, "start_new_round") EXCEPT
                    !.players = [p \in PlayerIndexes |->
                                    [gs.players[p] EXCEPT !.current_bid = None,
                                                          !.has_passed = FALSE]],
                    !.high_bidder_index = None,
                    !.auction_winner_index = None]
        dealt == deal_display_cards(reset, DisplayCount)
    IN IF Len(dealt.display_cards) = 0
       THEN [dealt EXCEPT !.phase = GAME_OVER]
       ELSE [dealt EXCEPT !.phase = BIDDING, !.round_number = @ + 1]

start_new_round_counts(gs) ==
    LET reset == [Log(gs, "start_new_round") EXCEPT
                    !.players = [p \in PlayerIndexes |->
                                    [gs.players[p] EXCEPT !.current_bid = None,
                                                          !.has_passed = FALSE]],
                    !.current_high_bid = 0,
                    !.high_bidder_index = None,
                    !.auction_winner_index = None]
        dealt == deal_display_cards(reset, DisplayCount)
    IN IF Len(dealt.display_cards) = 0
       THEN [dealt EXCEPT !.phase = GAME_OVER, !.round_number = @ + 1]
       ELSE [dealt EXCEPT !.phase = BIDDING, !.round_number = @ + 1]

start_new_round_from_first(gs) ==
    LET reset == [Log(gs, "start_new_round") EXCEPT
                    !.players = [p \in PlayerIndexes |->
                                    [gs.players[p] EXCEPT !.current_bid = None,
                                                          !.has_passed = FALSE]],
                    !.current_high_bid = 0,
                    !.high_bidder_index = None,
                    !.auction_winner_index = None,
                    !.current_player_index = 0]
        dealt == deal_display_cards(reset, DisplayCount)
    IN IF Len(dealt.display_cards) = 0
       THEN [dealt EXCEPT !.phase = GAME_OVER]
       ELSE [dealt EXCEPT !.phase = BIDDING, !.round_number = @ + 1]

start_new_round(gs) ==
    LET reset == [Log(gs, "start_new_round") EXCEPT
                    !.players = [p \in PlayerIndexes |->
                                    [gs.players[p] EXCEPT !.current_bid = None,
                                                          !.has_passed = FALSE]],
                    !.current_high_bid = 0,
                    !.high_bidder_index = None,
                    !.auction_winner_index = None]
        dealt == deal_display_cards(reset, DisplayCount)
    IN IF Len(dealt.display_cards) = 0
       THEN [dealt EXCEPT !.phase = GAME_OVER]
       ELSE [dealt EXCEPT !.phase = BIDDING, !.round_number = @ + 1]

\* The loop of advance_bidding_turn, with left iterations to go.
RECURSIVE AdvanceLoop(_, _, _)
AdvanceLoop(gs, original_player, left) ==
    IF left = 0 THEN gs
    ELSE LET g == advance_turn(gs)
         IN IF ~g.players[g.current_player_index].has_passed THEN g
            ELSE IF g.current_player_index = original_player THEN g
            ELSE AdvanceLoop(g, original_player, left - 1)

advance_bidding_turn_once(gs) == advance_turn(gs)

advance_bidding_turn(gs) ==
    AdvanceLoop(gs, gs.current_player_index, NumPlayers)

\* current_bid or 0
BidOrZero(bid) == IF bid = None THEN 0 ELSE bid

AwardCards_suffix(gs, winner_index) ==
    LET g0 == [gs EXCEPT !.auction_winner_index = winner_index]
        bid_amount == BidOrZero(g0.players[winner_index].current_bid)
        n == Len(g0.display_cards)
        g1 == IF bid_amount = 0
              THEN start_new_round(discard_display_cards(g0))
              ELSE [g0 EXCEPT
                      !.cards_to_process =
                          SubSeq(g0.display_cards, n - Min(bid_amount, n) + 1, n),
                      !.discard_pile =
                          @ \o SubSeq(g0.display_cards, 1, n - Min(bid_amount, n)),
                      !.display_cards = <<>>]
    IN [g1 EXCEPT !.phase = BUILDING, !.current_player_index = winner_index]

AwardCards_whole_row(gs, winner_index) ==
    LET g0 == [gs EXCEPT !.auction_winner_index = winner_index]
        bid_amount == BidOrZero(g0.players[winner_index].current_bid)
        n == Len(g0.display_cards)
        g1 == IF bid_amount = 0
              THEN start_new_round(discard_display_cards(g0))
              ELSE [g0 EXCEPT
                      !.cards_to_process =
                          SubSeq(g0.display_cards, 1, Min(bid_amount, n)),
                      !.discard_pile = @ \o g0.display_cards,
                      !.display_cards = <<>>]
    IN [g1 EXCEPT !.phase = BUILDING, !.current_player_index = winner_index]

\* end_auction from the point where the winner is known.
AwardCards(gs, winner_index) ==
    LET g0 == [gs EXCEPT !.auction_winner_index = winner_index]
        bid_amount == BidOrZero(g0.players[winner_index].current_bid)
        n == Len(g0.display_cards)
        g1 == IF bid_amount = 0
              THEN start_new_round(discard_display_cards(g0))
              ELSE [g0 EXCEPT
                      !.cards_to_process =
                          SubSeq(g0.display_cards, 1, Min(bid_amount, n)),
                      !.discard_pile =
                          @ \o SubSeq(g0.display_cards, Min(bid_amount, n) + 1, n),
                      !.display_cards = <<>>]
    IN [g1 EXCEPT !.phase = BUILDING, !.current_player_index = winner_index]

end_auction(gs, winner_index) ==
    LET g == Log(gs, "end_auction")
    IN IF winner_index # None THEN AwardCards(g, winner_index)
       ELSE IF g.high_bidder_index # None
            THEN AwardCards(g, g.high_bidder_index)
       ELSE IF Cardinality(active_bidders(g)) = 1
            THEN AwardCards(g, FirstOf(active_bidders(g)))
       ELSE discard_display_cards(g)

submit_bid_dirty(gs, player_index, amount) ==
    LET g == [gs EXCEPT
                !.players[player_index].current_bid = amount,
                !.current_high_bid = amount,
                !.high_bidder_index = player_index]
    IN IF ~can_bid(gs, player_index, amount)
       THEN [ret |-> FALSE,
             gs |-> [gs EXCEPT !.players[player_index].current_bid = amount]]
       ELSE [ret |-> TRUE,
             gs |-> IF is_bid_winning_bid(g, amount)
                    THEN end_auction(g, player_index)
                    ELSE advance_bidding_turn(g)]

submit_bid_keeps_turn(gs, player_index, amount) ==
    IF ~can_bid(gs, player_index, amount)
    THEN [ret |-> FALSE, gs |-> gs]
    ELSE LET g == [gs EXCEPT
                     !.players[player_index].current_bid = amount,
                     !.current_high_bid = amount,
                     !.high_bidder_index = player_index]
         IN [ret |-> TRUE,
             gs |-> IF is_bid_winning_bid(g, amount)
                    THEN end_auction(g, player_index)
                    ELSE g]

submit_bid(gs, player_index, amount) ==
    IF ~can_bid(gs, player_index, amount)
    THEN [ret |-> FALSE, gs |-> gs]
    ELSE LET g == [gs EXCEPT
                     !.players[player_index].current_bid = amount,
                     !.current_high_bid = amount,
                     !.high_bidder_index = player_index]
         IN [ret |-> TRUE,
             gs |-> IF is_bid_winning_bid(g, amount)
                    THEN end_auction(g, player_index)
                    ELSE advance_bidding_turn(g)]

submit_pass_no_end(gs, player_index) ==
    IF ~can_pass(gs, player_index)
    THEN [ret |-> FALSE, gs |-> gs]
    ELSE [ret |-> TRUE,
          gs |-> advance_bidding_turn(
                     [gs EXCEPT !.players[player_index].has_passed = TRUE])]

submit_pass_stays(gs, player_index) ==
    IF ~can_pass(gs, player_index)
    THEN [ret |-> FALSE, gs |-> gs]
    ELSE LET g == [gs EXCEPT !.players[player_index].has_passed = TRUE]
         IN [ret |-> TRUE,
             gs |-> IF Cardinality(active_bidders(g)) = 1
                    THEN end_auction(g, FirstOf(active_bidders(g)))
                    ELSE g]

submit_pass(gs, player_index) ==
    IF ~can_pass(gs, player_index)
    THEN [ret |-> FALSE, gs |-> gs]
    ELSE LET g == [gs EXCEPT !.players[player_index].has_passed = TRUE]
         IN [ret |-> TRUE,
             gs |-> IF Cardinality(active_bidders(g)) = 1
                    THEN end_auction(g, FirstOf(active_bidders(g)))
                    ELSE advance_bidding_turn(g)]

\* -------------------------------------------------------------- building
end_building_phase_no_refill(gs, shuffled) ==
    LET g == Log(gs, "end_building_phase")
    IN IF cards_remaining(g) = 0
       THEN [g EXCEPT !.phase = GAME_OVER]
       ELSE start_new_round(g)

end_building_phase_eager(gs, shuffled) ==
    LET g == Log(gs, "end_building_phase")
        r == refill_deck_from_discard(Log(g, "refill_deck_from_discard"),
                                      gs.discard_pile)
    IN IF r.ret THEN start_new_round(r.gs)
       ELSE IF cards_remaining(g) = 0 THEN [r.gs EXCEPT !.phase = GAME_OVER]
       ELSE start_new_round(g)

end_building_phase(gs, shuffled) ==
    LET g == Log(gs, "end_building_phase")
    IN IF cards_remaining(g) = 0
       THEN LET r == refill_deck_from_discard(Log(g, "refill_deck_from_discard"),
                                              shuffled)
            IN IF ~r.ret THEN [r.gs EXCEPT !.phase = GAME_OVER]
               ELSE start_new_round(r.gs)
       ELSE start_new_round(g)

place_card_bottom(gs, player_index, card, tower_suit, shuffled) ==
    IF ~can_place_card(gs, player_index, card, tower_suit)
    THEN [ret |-> FALSE, gs |-> gs]
    ELSE LET g0 == [gs EXCEPT
                      !.players[player_index].towers[tower_suit] =
                          <<card>> \o @,
                      !.cards_to_process = RemoveFirst(@, card)]
         IN [ret |-> TRUE,
             gs |-> IF Len(g0.cards_to_process) = 0
                    THEN end_building_phase(g0, shuffled)
                    ELSE g0]

place_card_early_end(gs, player_index, card, tower_suit, shuffled) ==
    IF ~can_place_card(gs, player_index, card, tower_suit)
    THEN [ret |-> FALSE, gs |-> gs]
    ELSE LET g0 == [gs EXCEPT
                      !.players[player_index].towers[tower_suit] =
                          Append(@, card)]
         IN [ret |-> TRUE, gs |-> end_building_phase(g0, shuffled)]

place_card_unchecked(gs, player_index, card, tower_suit, shuffled) ==
    IF \/ gs.phase # BUILDING
       \/ gs.auction_winner_index # player_index
       \/ ~InSeq(card, gs.cards_to_process)
    THEN [ret |-> FALSE, gs |-> gs]
    ELSE LET g0 == [gs EXCEPT
                      !.players[player_index].towers[tower_suit] =
                          Append(@, card)]
             g1 == [g0 EXCEPT !.cards_to_process = RemoveFirst(@, card)]
         IN [ret |-> TRUE,
             gs |-> IF Len(g1.cards_to_process) = 0
                    THEN end_building_phase(g1, shuffled)
                    ELSE g1]

place_card(gs, player_index, card, tower_suit, shuffled) ==
    IF ~can_place_card(gs, player_index, card, tower_suit)
    THEN [ret |-> FALSE, gs |-> gs]
    ELSE LET g0 == [gs EXCEPT
                      !.players[player_index].towers[tower_suit] =
                          Append(@, card)]
             g1 == IF InSeq(card, g0.cards_to_process)
                   THEN [g0 EXCEPT !.cards_to_process = RemoveFirst(@, card)]
                   ELSE g0
         IN [ret |-> TRUE,
             gs |-> IF Len(g1.cards_to_process) = 0
                    THEN end_building_phase(g1, shuffled)
                    ELSE g1]

tear_down_tower_front(gs, player_index, tower_suit) ==
    IF ~can_tear_down(gs, player_index, tower_suit)
    THEN [ret |-> FALSE, gs |-> gs]
    ELSE [ret |-> TRUE,
          gs |-> [gs EXCEPT
                    !.players[player_index].tear_down_pile =
                        gs.players[player_index].towers[tower_suit] \o @,
                    !.players[player_index].towers[tower_suit] = <<>>]]

tear_down_tower_keeps_base(gs, player_index, tower_suit) ==
    IF ~can_tear_down(gs, player_index, tower_suit)
    THEN [ret |-> FALSE, gs |-> gs]
    ELSE LET tower == gs.players[player_index].towers[tower_suit]
         IN [ret |-> TRUE,
             gs |-> [gs EXCEPT
                       !.players[player_index].tear_down_pile =
                           @ \o SubSeq(tower, 2, Len(tower)),
                       !.players[player_index].towers[tower_suit] =
                           SubSeq(tower, 1, 1)]]

tear_down_tower(gs, player_index, tower_suit) ==
    IF ~can_tear_down(gs, player_index, tower_suit)
    THEN [ret |-> FALSE, gs |-> gs]
    ELSE [ret |-> TRUE,
          gs |-> [gs EXCEPT
                    !.players[player_index].tear_down_pile =
                        @ \o gs.players[player_index].towers[tower_suit],
                    !.players[player_index].towers[tower_suit] = <<>>]]

\* sum(...) over the keys S of f.
RECURSIVE SumOver(_, _)
SumOver(S, f) ==
    IF S = {} THEN 0
    ELSE LET x == CHOOSE y \in S : TRUE
         IN f[x] + SumOver(S \ {x}, f)

\* --------------------------------------------------------------- scoring
MaxOf(S) == CHOOSE x \in S : \A y \in S : y <= x

calculate_tower_score_flat(tower_cards) == Len(tower_cards)

calculate_tower_score(tower_cards) ==
    IF Len(tower_cards) = 0 THEN 0
    ELSE IF CardValue(tower_cards[Len(tower_cards)]) = 0
         THEN Len(tower_cards) * 2
    ELSE Len(tower_cards)

calculate_tower_bonus_count(towers) ==
    Cardinality({s \in DOMAIN towers : Len(towers[s]) > 0})

calculate_tower_bonus(towers) ==
    LET max_height == MaxOf({Len(towers[s]) : s \in DOMAIN towers} \cup {0})
    IN IF max_height > 0 THEN max_height ELSE 0

calculate_tear_down_penalty_linear(tear_down_count) ==
    IF tear_down_count <= 0 THEN 0 ELSE tear_down_count

calculate_tear_down_penalty(tear_down_count) ==
    IF tear_down_count <= 0 THEN 0
    ELSE (tear_down_count * (tear_down_count + 1)) \div 2

calculate_player_score(player) ==
    LET tower_scores ==
            SumOver(Suits, [s \in Suits |-> calculate_tower_score(player.towers[s])])
        bonus == calculate_tower_bonus(player.towers)
        penalty == calculate_tear_down_penalty(Len(player.tear_down_pile))
    IN tower_scores + bonus - penalty

calculate_all_scores(gs) ==
    [idx \in PlayerIndexes |-> calculate_player_score(gs.players[idx])]

\* max(keys, key=...): the keys are gone through in order and a later key
\* replaces the best one only when its score is strictly greater.
RECURSIVE MaxByKey(_, _, _)
MaxByKey(key, best, idx) ==
    IF idx >= NumPlayers THEN best
    ELSE MaxByKey(key, IF key[idx] > key[best] THEN idx ELSE best, idx + 1)

get_winner_last(gs) ==
    LET scores == calculate_all_scores(gs)
    IN CHOOSE w \in PlayerIndexes :
           /\ \A q \in PlayerIndexes : scores[q] <= scores[w]
           /\ \A q \in PlayerIndexes : scores[q] = scores[w] => q <= w

get_winner(gs) ==
    IF NumPlayers = 0 THEN None
    ELSE MaxByKey(calculate_all_scores(gs), 0, 1)

\* Tower.calculate_score, PlayerState.calculate_penalty, PlayerState.total_score
\* and GameState.winner (the index of the player it returns).
calculate_score(tower) ==
    IF Len(tower) = 0 THEN 0
    ELSE IF top_card(tower) # None /\ is_tower_top(top_card(tower))
         THEN Len(tower) * 2
    ELSE Len(tower)

calculate_penalty(player) ==
    (Len(player.tear_down_pile) * (Len(player.tear_down_pile) + 1)) \div 2

total_score_no_penalty(player) ==
    LET tower_scores ==
            SumOver(Suits, [s \in Suits |-> calculate_score(player.towers[s])])
        max_height == MaxOf({Len(player.towers[s]) : s \in Suits} \cup {0})
    IN IF max_height > 0 THEN tower_scores + max_height ELSE tower_scores

total_score(player) ==
    LET tower_scores ==
            SumOver(Suits, [s \in Suits |-> calculate_score(player.towers[s])])
        max_height == MaxOf({Len(player.towers[s]) : s \in Suits} \cup {0})
        with_bonus == IF max_height > 0 THEN tower_scores + max_height
                      ELSE tower_scores
    IN with_bonus - calculate_penalty(player)

winner(gs) ==
    IF gs.phase # GAME_OVER THEN None
    ELSE IF NumPlayers = 0 THEN None
    ELSE MaxByKey([p \in PlayerIndexes |-> total_score(gs.players[p])], 0, 1)

\* ------------------------------------------------- building: when stuck
\* No tower suit: the None that auto_tear_down_if_stuck returns.
NoSuit == ""

\* The loop of auto_tear_down_if_stuck from the i-th suit of TowerSuit on;
\* best_suit = NoSuit stands for lowest_penalty = float('inf').
RECURSIVE BestTearDown(_, _, _, _)
BestTearDown(player, i, best_suit, lowest_penalty) ==
    IF i > Len(TowerSuit) THEN best_suit
    ELSE LET suit == TowerSuit[i]
             additional_cards == Len(player.towers[suit])
             new_penalty ==
                 calculate_tear_down_penalty(Len(player.tear_down_pile)
                                             + additional_cards)
         IN IF additional_cards > 0
               /\ (best_suit = NoSuit \/ new_penalty < lowest_penalty)
            THEN BestTearDown(player, i + 1, suit, new_penalty)
            ELSE BestTearDown(player, i + 1, best_suit, lowest_penalty)

RECURSIVE LastTearDown(_, _, _, _)
LastTearDown(player, i, best_suit, lowest_penalty) ==
    IF i > Len(TowerSuit) THEN best_suit
    ELSE LET suit == TowerSuit[i]
             additional_cards == Len(player.towers[suit])
             new_penalty ==
                 calculate_tear_down_penalty(Len(player.tear_down_pile)
                                             + additional_cards)
         IN IF additional_cards > 0
               /\ (best_suit = NoSuit \/ new_penalty <= lowest_penalty)
            THEN LastTearDown(player, i + 1, suit, new_penalty)
            ELSE LastTearDown(player, i + 1, best_suit, lowest_penalty)

auto_tear_down_if_stuck_last(gs, player_index, card) ==
    LET legal == get_legal_placements(gs, player_index, card)
        best_suit == LastTearDown(gs.players[player_index], 1, NoSuit, 0)
    IN IF Len(legal) > 0 THEN [ret |-> NoSuit, gs |-> gs]
       ELSE IF best_suit # NoSuit
            THEN [ret |-> best_suit,
                  gs |-> tear_down_tower(gs, player_index, best_suit).gs]
       ELSE [ret |-> NoSuit, gs |-> gs]

auto_tear_down_if_stuck(gs, player_index, card) ==
    LET legal == get_legal_placements(gs, player_index, card)
        best_suit == BestTearDown(gs.players[player_index], 1, NoSuit, 0)
    IN IF Len(legal) > 0 THEN [ret |-> NoSuit, gs |-> gs]
       ELSE IF best_suit # NoSuit
            THEN [ret |-> best_suit,
                  gs |-> tear_down_tower(gs, player_index, best_suit).gs]
       ELSE [ret |-> NoSuit, gs |-> gs]

\* ------------------------------------------------------------ environment
Reverse(s) == [i \in 1..Len(s) |-> s[Len(s) + 1 - i]]

\* Outcomes of random.shuffle on s that are explored: s as it is, and reversed.
Shuffles(s) == {s, Reverse(s)}

\* The outcomes of the shuffle a place_card call may run into: only the call
\* that places the last card on an empty deck recycles the discard pile.
PlaceShuffles(gs) ==
    IF gs.phase = BUILDING /\ Len(gs.cards_to_process) = 1 /\ Len(gs.deck) = 0
    THEN Shuffles(gs.discard_pile)
    ELSE {<<>>}

\* What the callers pass: amounts below, inside and above the legal range, and
\* the first and the last tower suit.
BidInputs == {0, 1, 2, MaxBid, MaxBid + 1}
SuitInputs == {"sand", "fire"}

VARIABLES game_state, last

vars == <<game_state, last>>

\* The last accepted call: the handler and its arguments.
Call(op, player, amount, card, suit) ==
    [op |-> op, player |-> player, amount |-> amount, card |-> card,
     suit |-> suit]

\* The state a handler is entered with: that of the program, nothing logged.
Enter == Fields(game_state)

\* What a call leaves behind.  An accepted call is recorded in last, with the
\* functions it went through in trace; a rejected call leaves the record of
\* the last accepted one, so that it is a step only if it changed a field.
Return(r, call) ==
    IF r.ret
    THEN game_state' = r.gs /\ last' = call
    ELSE /\ game_state' = [r.gs EXCEPT !.trace = game_state.trace]
         /\ last' = last

\* FiveTowersEnv.reset: a shuffled deck, the players, the first display row.
reset(deck) ==
    [deal_display_cards([NewGameState EXCEPT !.deck = deck], DisplayCount)
        EXCEPT !.phase = BIDDING,
               !.current_player_index = 0,
               !.round_number = 1]

Init ==
    /\ \E deck \in Shuffles([i \in 1..NumCards |-> i]) : game_state = reset(deck)
    /\ last = Call("reset", None, None, None, "")

SubmitBid ==
    \E p \in PlayerIndexes, amount \in BidInputs :
        \E r \in {submit_bid(Enter, p, amount)} :
            Return(r, Call("submit_bid", p, amount, None, ""))

SubmitPass ==
    \E p \in PlayerIndexes :
        \E r \in {submit_pass(Enter, p)} :
            Return(r, Call("submit_pass", p, None, None, ""))

PlaceCard ==
    \E p \in PlayerIndexes, card \in Cards, suit \in SuitInputs :
        \E shuffled \in PlaceShuffles(game_state) :
            \E r \in {place_card(Enter, p, card, suit, shuffled)} :
                Return(r, Call("place_card", p, None, card, suit))

TearDownTower ==
    \E p \in PlayerIndexes, suit \in SuitInputs :
        \E r \in {tear_down_tower(Enter, p, suit)} :
            Return(r, Call("tear_down_tower", p, None, None, suit))

Next == SubmitBid \/ SubmitPass \/ PlaceCard \/ TearDownTower

Spec == Init /\ [][Next]_vars

\* Fairness on accepted actions: an accepted call (a step that changes the
\* state) is eventually made while one stays possible.
FairSpec == Spec /\ WF_vars(Next)

\* ------------------------------------------------- the building of a hand
\* A game whose deck is a hand of HandSize different cards out of the first
\* NumBuildCards of DeckValues (7, Tower-Top, Wild, Reset, 3 and 12), or the
\* five cards of the scoring example, taken up after the opening bid of 5 by
\* player 0: the bid wins all of the display row, the deck and the discard
\* pile are empty, and the winner builds.
BuildCards == 1..NumBuildCards

\* The card of value v.
CardOf(v) == CHOOSE c \in 1..Len(DeckValues) : CardValue(c) = v

\* The deck from which the display row is 10, 5, 8, 3, 0 (the row is dealt from
\* the tail of the deck): the hand of the scoring example.
ScoringDeck == <<CardOf(0), CardOf(3), CardOf(8), CardOf(5), CardOf(10)>>

BuildDecks ==
    {d \in [1..HandSize -> BuildCards] :
        \A i, j \in 1..HandSize : i # j => d[i] # d[j]}
    \cup {ScoringDeck}

BuildInit ==
    /\ \E deck \in BuildDecks :
           game_state = submit_bid(reset(deck), 0, MaxBid).gs
    /\ last = Call("submit_bid", 0, MaxBid, None, "")

\* place_card as its callers use it: with a card of cards_to_process.
PlaceWon ==
    \E p \in PlayerIndexes, suit \in SuitInputs :
        \E card \in Range(game_state.cards_to_process) :
            \E shuffled \in PlaceShuffles(game_state) :
                \E r \in {place_card(Enter, p, card, suit, shuffled)} :
                    Return(r, Call("place_card", p, None, card, suit))

BuildNext == PlaceWon \/ TearDownTower

BuildSpec == BuildInit /\ [][BuildNext]_vars

\* ------------------------------------------------- up to the first recycle
\* Games taken up after the first auction and followed to the first recycle
\* of the discard pile, or to the attempt at one that ends the game.  On a
\* deck DeckExtra cards longer than the display row player 0 has opened with
\* a bid of 1 and every other player has passed in turn: the deck is not
\* empty when the first winner has built and empty when the second has, and
\* the discard pile then holds several cards, up to one more than a display
\* row.  On a deck of one display row player 0 has opened with a bid of
\* MaxBid, which wins the whole row at once: the deck and the discard pile
\* are empty when the winner has built.
LongDeck == [i \in 1..(DisplayCount + DeckExtra) |-> i]
ShortDeck == [i \in 1..DisplayCount |-> i]

RECURSIVE PassFrom(_, _)
PassFrom(gs, player_index) ==
    IF player_index >= NumPlayers THEN gs
    ELSE PassFrom(submit_pass(Fields(gs), player_index).gs, player_index + 1)

RecycleInit ==
    \/ /\ \E deck \in Shuffles(LongDeck) :
              game_state = PassFrom(submit_bid(reset(deck), 0, 1).gs, 1)
       /\ last = Call("submit_pass", NumPlayers - 1, None, None, "")
    \/ /\ \E deck \in Shuffles(ShortDeck) :
              game_state = submit_bid(reset(deck), 0, MaxBid).gs
       /\ last = Call("submit_bid", 0, MaxBid, None, "")

\* The last accepted call has not recycled the discard pile.
InPlay ==
    ~InSeq("refill_deck_from_discard", game_state.trace)

RecycleNext ==
    \/ InPlay /\ SubmitBid
    \/ InPlay /\ SubmitPass
    \/ InPlay /\ PlaceWon
    \/ InPlay /\ TearDownTower

RecycleSpec == RecycleInit /\ [][RecycleNext]_vars

\* ------------------------------------------------------ the stuck builder
\* A later round of a game: player 0 has won the one card of the display row
\* (of value 15) with all five towers standing from earlier rounds, the cards
\* of values 14 down to 10 at their bases in suit order.  The NumLoose cards
\* of the lowest values (the Tower-Top first) are each on top of one of the
\* towers or on the teardown pile, every tower in descending order.  The
\* winner builds, or asks auto_tear_down_if_stuck for help.
BaseCard(suit) == CardOf(15 - (CHOOSE i \in 1..Len(TowerSuit) : TowerSuit[i] = suit))
LooseCards == {CardOf(v) : v \in 0..(NumLoose - 1)}
HeldCard == CardOf(15)

\* Two rounds at least have gone before: the standing cards are more than a
\* display row.
LaterRound == 3

\* The cards of S from the highest value to the lowest.
RECURSIVE Descending(_)
Descending(S) ==
    IF S = {} THEN <<>>
    ELSE LET c == CHOOSE x \in S : \A y \in S : CardValue(y) <= CardValue(x)
         IN <<c>> \o Descending(S \ {c})

Layouts == [LooseCards -> Suits \cup {"pile"}]

Standing(layout) ==
    [NewPlayer EXCEPT
        !.towers = [s \in Suits |->
                       <<BaseCard(s)>>
                       \o Descending({c \in LooseCards : layout[c] = s})],
        !.tear_down_pile =
            Descending({c \in LooseCards : layout[c] = "pile"})]

StuckInit ==
    /\ \E layout \in Layouts :
           game_state =
               PassFrom(submit_bid([reset(<<HeldCard>>) EXCEPT
                                       !.players[0] = Standing(layout),
                                       !.round_number = LaterRound],
                                   0, 1).gs, 1)
    /\ last = Call("submit_bid", 0, 1, None, "")

AutoTearDown ==
    \E p \in PlayerIndexes :
        \E card \in Range(game_state.cards_to_process) :
            \E r \in {auto_tear_down_if_stuck(Enter, p, card)} :
                Return([ret |-> r.ret # NoSuit, gs |-> r.gs],
                       Call("auto_tear_down_if_stuck", p, None, card, r.ret))

StuckNext == AutoTearDown \/ PlaceWon \/ TearDownTower

StuckSpec == StuckInit /\ [][StuckNext]_vars

\* ------------------------------------------------------------------ views
Called(gs, name) == InSeq(name, gs.trace)

\* The last handler resolved an auction / resolved it for a bid of 0 or none /
\* went through start_new_round.
AuctionEnded(gs) == Called(gs, "end_auction")
ZeroBidResolved(gs) ==
    Called(gs, "end_auction") /\ Called(gs, "discard_display_cards")
RoundStarted(gs) == Called(gs, "start_new_round")

PlayerCards(pl) ==
    SumOver(Suits, [s \in Suits |-> Len(pl.towers[s])]) + Len(pl.tear_down_pile)

TotalCards(gs) ==
    Len(gs.deck) + Len(gs.discard_pile) + Len(gs.display_cards)
    + Len(gs.cards_to_process)
    + SumOver(PlayerIndexes, [p \in PlayerIndexes |-> PlayerCards(gs.players[p])])

Accepts(op) == last.op = op

\* ----------------------------------------------------------------- claims

\* C1: when an auction is resolved for a winner whose bid is 0 or absent, the
\* whole display row goes to the discard pile, a new round is started at once,
\* and the game does not enter Building: afterwards the phase is Bidding (or
\* GameOver when nothing could be dealt) and cards_to_process is empty.
C1_ZeroBidStartsNewRound ==
    [][ZeroBidResolved(game_state') =>
          /\ game_state'.discard_pile =
                 game_state.discard_pile \o game_state.display_cards
          /\ RoundStarted(game_state')
          /\ game_state'.phase \in {BIDDING, GAME_OVER}
          /\ Len(game_state'.cards_to_process) = 0]_vars

\* C2: across accepted and rejected calls the number of cards in the deck, the
\* discard pile, the display row, all towers, all teardown piles and
\* cards_to_process stays what it was at game start.
\* The deal is also applied to the reached state with a deck longer than the
\* display row put in place of its (empty or short) deck.
LongDecks == {[i \in 1..n |-> i] : n \in 0..(DisplayCount + 2)}

C2_CardsConserved ==
    /\ TotalCards(game_state) = NumCards
    /\ \A d \in LongDecks :
           LET g == [Enter EXCEPT !.deck = d, !.display_cards = <<>>]
           IN TotalCards(start_new_round(g)) = TotalCards(g)

C2_Witness ==
    /\ game_state.round_number >= 2
    /\ \E p \in PlayerIndexes : Len(game_state.players[p].tear_down_pile) > 0
    /\ \E p \in PlayerIndexes, s \in Suits :
           Len(game_state.players[p].towers[s]) > 0

\* C3: under fairness on accepted actions every game eventually reaches
\* GameOver.
C3_EventuallyGameOver == <>(game_state.phase = GAME_OVER)

\* C4: an accepted bid of 5 ends the auction in that call with the bidder as
\* winner, however many players have not passed: the phase is Building and
\* auction_winner_index and current_player_index are the bidder.
C4_MaxBidWinsAtOnce ==
    (Accepts("submit_bid") /\ last.amount = MaxBid) =>
        /\ AuctionEnded(game_state)
        /\ game_state.phase = BUILDING
        /\ game_state.auction_winner_index = last.player
        /\ game_state.current_player_index = last.player

C4_Witness ==
    /\ Accepts("submit_bid") /\ last.amount = MaxBid
    /\ Cardinality(active_bidders(game_state)) = NumPlayers
    /\ game_state.current_high_bid = MaxBid

\* The call behind the step is an accepted submit_pass that leaves w as the
\* only player who has not passed.
PassLeavesOnly(w) ==
    /\ last'.op = "submit_pass"
    /\ active_bidders(game_state) \ {last'.player} = {w}

\* C5 as stated: when an accepted pass leaves exactly one player who has not
\* passed, the auction ends within that call and that player is the auction
\* winner (auction_winner_index), whether or not that player ever bid.
C5_LastBidderIsWinner ==
    [][\A w \in PlayerIndexes :
          PassLeavesOnly(w) =>
              /\ AuctionEnded(game_state')
              /\ game_state'.auction_winner_index = w]_vars

\* C5 amended: when an accepted pass leaves exactly one player who has not
\* passed, the auction is resolved within that call; if that player has bid,
\* auction_winner_index is that player, the phase is Building and the turn is
\* theirs; if that player never bid, the resolution is the zero-bid one (row
\* discarded, new round started) and auction_winner_index is none afterwards.
C5_LastBidderResolved ==
    [][\A w \in PlayerIndexes :
          PassLeavesOnly(w) =>
              /\ AuctionEnded(game_state')
              /\ IF BidOrZero(game_state.players[w].current_bid) > 0
                 THEN /\ game_state'.auction_winner_index = w
                      /\ game_state'.phase = BUILDING
                      /\ game_state'.current_player_index = w
                      /\ ~RoundStarted(game_state')
                 ELSE /\ game_state'.auction_winner_index = None
                      /\ ZeroBidResolved(game_state')
                      /\ RoundStarted(game_state')]_vars

C5_Witness ==
    /\ Accepts("submit_pass") /\ AuctionEnded(game_state)
    /\ Cardinality(active_bidders(game_state)) = 1
    /\ game_state.auction_winner_index \in active_bidders(game_state)
    /\ game_state.auction_winner_index # last.player

\* C6: when an auction is won with a bid of 1 to 5, cards_to_process becomes
\* the first amount cards of the display row (all of it when it is shorter),
\* every other display card is appended to the discard pile, the display row
\* becomes empty, the phase becomes Building and the turn becomes the winner's.
C6_WinnerGetsPrefix ==
    [][(AuctionEnded(game_state') /\ ~ZeroBidResolved(game_state')) =>
          LET w == game_state'.auction_winner_index
              amount == game_state'.players[w].current_bid
              n == Len(game_state.display_cards)
              k == Min(amount, n)
          IN /\ amount \in 1..MaxBid
             /\ game_state'.cards_to_process =
                    SubSeq(game_state.display_cards, 1, k)
             /\ game_state'.discard_pile =
                    game_state.discard_pile
                        \o SubSeq(game_state.display_cards, k + 1, n)
             /\ game_state'.display_cards = <<>>
             /\ game_state'.phase = BUILDING
             /\ game_state'.current_player_index = w]_vars

C6_Witness ==
    /\ AuctionEnded(game_state) /\ ~ZeroBidResolved(game_state)
    /\ Len(game_state.cards_to_process) = 1
    /\ Len(game_state.discard_pile) = 1
    /\ game_state.players[game_state.auction_winner_index].current_bid = 1

\* C7: whenever submit_bid, submit_pass, place_card or tear_down_tower returns
\* False, no field of the GameState differs from its value before the call.
C7_RejectedCallChangesNothing ==
    /\ \A p \in PlayerIndexes, amount \in BidInputs :
           LET r == submit_bid(Enter, p, amount)
           IN ~r.ret => r.gs = Enter
    /\ \A p \in PlayerIndexes :
           LET r == submit_pass(Enter, p)
           IN ~r.ret => r.gs = Enter
    /\ \A p \in PlayerIndexes, card \in Cards, suit \in Suits :
           \A shuffled \in PlaceShuffles(game_state) :
               LET r == place_card(Enter, p, card, suit, shuffled)
               IN ~r.ret => r.gs = Enter
    /\ \A p \in PlayerIndexes, suit \in Suits :
           LET r == tear_down_tower(Enter, p, suit)
           IN ~r.ret => r.gs = Enter

\* The winner holds a card that a capped tower of theirs refuses, and another
\* player's bid, pass and teardown are refused as well.
C7_Witness ==
    /\ game_state.phase = BUILDING
    /\ game_state.auction_winner_index # None
    /\ \E card \in Range(game_state.cards_to_process), suit \in SuitInputs :
           /\ is_capped(game_state.players[game_state.auction_winner_index]
                            .towers[suit])
           /\ ~place_card(Enter, game_state.auction_winner_index, card, suit,
                          <<>>).ret
    /\ \E q \in PlayerIndexes :
           /\ ~submit_bid(Enter, q, MaxBid).ret
           /\ ~submit_pass(Enter, q).ret
           /\ ~tear_down_tower(Enter, q, "sand").ret

C9_HighBidMonotone ==
    /\ game_state.current_high_bid = 0
    /\ [][IF RoundStarted(game_state')
           THEN game_state'.current_high_bid = 0
           ELSE game_state'.current_high_bid >= game_state.current_high_bid]_vars

C9_Witness ==
    /\ game_state.round_number >= 2
    /\ game_state.phase = BIDDING
    /\ game_state.current_high_bid = 2
    /\ \E q \in PlayerIndexes : game_state.players[q].current_bid = 1

\* C10: once a player's has_passed is true, every submit_bid and submit_pass
\* by that player is rejected and the player's current_bid and has_passed do
\* not change, until a start_new_round clears the flag.
C10_PassedStaysOut ==
    /\ [](\A p \in PlayerIndexes :
             game_state.players[p].has_passed =>
                 /\ \A amount \in BidInputs : ~submit_bid(Enter, p, amount).ret
                 /\ ~submit_pass(Enter, p).ret)
    /\ [][\A p \in PlayerIndexes :
             (game_state.players[p].has_passed /\ ~RoundStarted(game_state')) =>
                 /\ game_state'.players[p].has_passed
                 /\ game_state'.players[p].current_bid =
                        game_state.players[p].current_bid]_vars

\* A player who passed in an auction that went on to a bid of 2 and is still
\* open: their bid of 5 and their second pass are refused.
C10_Witness ==
    /\ game_state.phase = BIDDING
    /\ game_state.current_high_bid = 2
    /\ \E p \in PlayerIndexes :
           /\ game_state.players[p].has_passed
           /\ ~submit_bid(Enter, p, MaxBid).ret
           /\ ~submit_pass(Enter, p).ret

\* A card of every value of the deck (0 to 15), and the towers the placement
\* rule is asked about: the empty one, every tower of one card, and every
\* tower of two cards over a card of the hands.
AllCards == 1..Len(DeckValues)

TowerInputs ==
    {<<>>} \cup {<<c>> : c \in AllCards}
           \cup {<<b, c>> : b \in BuildCards, c \in AllCards}

\* The placement rule as stated.
PlacementRule(tower, card) ==
    \/ Len(tower) = 0
    \/ /\ CardValue(tower[Len(tower)]) # 0
       /\ \/ CardValue(tower[Len(tower)]) = 8
          \/ CardValue(card) = 9
          \/ CardValue(card) < CardValue(tower[Len(tower)])

CanPlaceIsPlacementRule ==
    \A tower \in TowerInputs, card \in AllCards :
        can_place(tower, card) <=> PlacementRule(tower, card)

\* C11: a tower accepts a card exactly when the tower is empty, or its top card
\* is not a Tower-Top and either the top card is a Reset, or the card is a
\* Wild, or the card's value is strictly less than the top card's value; and
\* place_card succeeds only on a tower that accepts the card.
C11_TowerAcceptsIff ==
    /\ CanPlaceIsPlacementRule
    /\ \A p \in PlayerIndexes, suit \in Suits, card \in AllCards :
           /\ can_place(game_state.players[p].towers[suit], card)
                  <=> PlacementRule(game_state.players[p].towers[suit], card)
           /\ \A shuffled \in PlaceShuffles(game_state) :
                  place_card(Enter, p, card, suit, shuffled).ret =>
                      PlacementRule(game_state.players[p].towers[suit], card)

\* A Wild was placed on a lower card, and the tower it tops refuses a card of
\* the hand (a 12) that the winner's empty tower accepts.
C11_Witness ==
    /\ game_state.phase = BUILDING
    /\ \E p \in PlayerIndexes, s, t \in Suits :
           \E card \in Range(game_state.cards_to_process) :
               LET tower == game_state.players[p].towers[s]
               IN /\ Len(tower) = 2
                  /\ is_wild(tower[2])
                  /\ CardValue(tower[1]) < CardValue(tower[2])
                  /\ ~place_card(Enter, p, card, s, <<>>).ret
                  /\ place_card(Enter, p, card, t, <<>>).ret

TowerOf(gs, p, suit) == gs.players[p].towers[suit]

\* Every placement query and every place_card attempt on the tower is refused.
RefusesAll(p, suit) ==
    \A card \in AllCards :
        /\ ~can_place(TowerOf(game_state, p, suit), card)
        /\ ~can_place_card(Enter, p, card, suit)
        /\ \A shuffled \in PlaceShuffles(game_state) :
               ~place_card(Enter, p, card, suit, shuffled).ret

\* C12 as stated: once a Tower-Top has been placed on a tower, the tower is
\* capped and refuses every placement in every later state, after any sequence
\* of actions.
C12_CappedForever ==
    /\ [](\A p \in PlayerIndexes, suit \in Suits :
             is_capped(TowerOf(game_state, p, suit)) => RefusesAll(p, suit))
    /\ [][\A p \in PlayerIndexes, suit \in Suits :
             is_capped(TowerOf(game_state, p, suit)) =>
                 is_capped(TowerOf(game_state', p, suit))]_vars

\* C12 amended: a tower whose top is a Tower-Top is capped and refuses every
\* placement query and every place_card attempt for as long as it is not torn
\* down; the only step that changes a capped tower is an accepted
\* tear_down_tower of it by its owner, which empties it into the owner's
\* teardown pile, and the emptied tower accepts cards again.
C12_CappedUntilTornDown ==
    /\ [](\A p \in PlayerIndexes, suit \in Suits :
             is_capped(TowerOf(game_state, p, suit)) => RefusesAll(p, suit))
    /\ [][\A p \in PlayerIndexes, suit \in Suits :
             is_capped(TowerOf(game_state, p, suit)) =>
                 \/ TowerOf(game_state', p, suit) = TowerOf(game_state, p, suit)
                 \/ /\ last' = Call("tear_down_tower", p, None, None, suit)
                    /\ TowerOf(game_state', p, suit) = <<>>
                    /\ game_state'.players[p].tear_down_pile =
                           game_state.players[p].tear_down_pile
                               \o TowerOf(game_state, p, suit)
                    /\ \A card \in AllCards :
                           can_place(TowerOf(game_state', p, suit), card)]_vars

\* The winner has just capped a tower with a Tower-Top and still holds a card,
\* which that tower refuses.
C12_Witness ==
    /\ Accepts("place_card") /\ is_tower_top(last.card)
    /\ game_state.phase = BUILDING
    /\ is_capped(TowerOf(game_state, last.player, last.suit))
    /\ \E card \in Range(game_state.cards_to_process) :
           ~place_card(Enter, last.player, card, last.suit, <<>>).ret

\* C13: in every tower of every player a Tower-Top never has a card above it,
\* and each card is strictly lower in value than the card directly beneath it
\* unless the card beneath is a Reset or the card itself is a Wild.
C13_TowersDescend ==
    \A p \in PlayerIndexes, suit \in Suits :
        LET tower == TowerOf(game_state, p, suit)
        IN \A i \in 1..(Len(tower) - 1) :
               /\ CardValue(tower[i]) # 0
               /\ \/ CardValue(tower[i + 1]) < CardValue(tower[i])
                  \/ CardValue(tower[i]) = 8
                  \/ CardValue(tower[i + 1]) = 9

\* A capped tower of three cards with a step up in it (a card above a Reset,
\* or a Wild above a lower card).
C13_Witness ==
    \E p \in PlayerIndexes, suit \in Suits :
        LET tower == TowerOf(game_state, p, suit)
        IN /\ Len(tower) = 3
           /\ is_capped(tower)
           /\ \E i \in 1..2 : CardValue(tower[i + 1]) > CardValue(tower[i])

\* C14: in every reachable state, if cards_to_process is non-empty then the
\* phase is Building.
C14_CardsToProcessOnlyInBuilding ==
    Len(game_state.cards_to_process) > 0 => game_state.phase = BUILDING

\* The winner of two cards has placed one and holds the other.
C14_Witness ==
    /\ Accepts("place_card")
    /\ Len(game_state.cards_to_process) = 1
    /\ game_state.phase = BUILDING
    /\ game_state.players[last.player].current_bid = 2

NoCardLeft(gs) ==
    /\ Len(gs.deck) = 0
    /\ Len(gs.display_cards) = 0
    /\ Len(gs.discard_pile) = 0
    /\ Len(gs.cards_to_process) = 0

\* C15: in every reachable state whose phase is GameOver, the deck, the display
\* row, the discard pile and cards_to_process are all empty; the game enters
\* GameOver only by a step that leaves no card to deal or recycle.
C15_GameOverMeansNoCards ==
    /\ [](game_state.phase = GAME_OVER => NoCardLeft(game_state))
    /\ [][(game_state.phase # GAME_OVER /\ game_state'.phase = GAME_OVER) =>
             /\ NoCardLeft(game_state')
             /\ Len(game_state.deck) = 0
             /\ Len(game_state.discard_pile) = 0
             /\ Called(game_state', "refill_deck_from_discard")]_vars

\* The game is over after a round that was dealt from the recycled discard pile.
C15_Witness ==
    /\ game_state.phase = GAME_OVER
    /\ game_state.round_number >= 2
    /\ Accepts("place_card")

Values(tower) == [i \in 1..Len(tower) |-> CardValue(tower[i])]

\* The player of the scoring example: sand tower [10, 5], fire tower [8, 3, 0],
\* the other three towers and the teardown pile empty.
IsScoringExample(player) ==
    /\ Values(player.towers["sand"]) = <<10, 5>>
    /\ Values(player.towers["fire"]) = <<8, 3, 0>>
    /\ \A s \in Suits \ {"sand", "fire"} : Len(player.towers[s]) = 0
    /\ Len(player.tear_down_pile) = 0

\* The score as stated: card counts, doubled under a Tower-Top, plus the
\* height of the tallest tower, minus the teardown penalty.
ScoreAsStated(player) ==
    LET count(s) == Len(player.towers[s])
        doubled(s) == count(s) > 0 /\ CardValue(player.towers[s][count(s)]) = 0
        k == Len(player.tear_down_pile)
    IN SumOver(Suits, [s \in Suits |->
                          IF doubled(s) THEN 2 * count(s) ELSE count(s)])
       + MaxOf({count(s) : s \in Suits})
       - (k * (k + 1)) \div 2

PileSizes == 0..Len(DeckValues)

PenaltyIsTriangular ==
    /\ \A k \in PileSizes : 2 * calculate_tear_down_penalty(k) = k * (k + 1)
    /\ calculate_tear_down_penalty(0) = 0
    /\ calculate_tear_down_penalty(1) = 1
    /\ calculate_tear_down_penalty(2) = 3
    /\ calculate_tear_down_penalty(3) = 6
    /\ calculate_tear_down_penalty(5) = 15

\* C18: for every teardown-pile size k >= 0 the teardown penalty is k*(k+1)/2
\* (0, 1, 3, 6, 15 for k = 0, 1, 2, 3, 5), and in every reachable state a
\* player's penalty is that formula applied to the size of the player's
\* teardown pile.
C18_PenaltyTriangular ==
    /\ PenaltyIsTriangular
    /\ \A p \in PlayerIndexes :
           LET player == game_state.players[p]
               k == Len(player.tear_down_pile)
           IN /\ 2 * calculate_penalty(player) = k * (k + 1)
              /\ calculate_penalty(player) = calculate_tear_down_penalty(k)
              /\ total_score(player) = calculate_player_score(player)

\* A tower of three cards was torn down: the pile of three costs 6.
C18_Witness ==
    /\ Accepts("tear_down_tower")
    /\ Len(game_state.players[last.player].tear_down_pile) = 3
    /\ calculate_penalty(game_state.players[last.player]) = 6

\* w has the maximum of the scores, and no player before w in the player list
\* has it.
FirstWithMaximum(w, scores) ==
    /\ w \in PlayerIndexes
    /\ \A q \in PlayerIndexes : scores[q] <= scores[w]
    /\ \A q \in PlayerIndexes : q < w => scores[q] < scores[w]

\* C19: the game winner is a player whose score is the maximum over all
\* players, and when several players share that maximum the winner is the one
\* with the lowest index in the player list.
C19_WinnerIsFirstMaximum ==
    /\ FirstWithMaximum(get_winner(Enter), calculate_all_scores(Enter))
    /\ game_state.phase = GAME_OVER =>
           /\ FirstWithMaximum(winner(Enter),
                  [p \in PlayerIndexes |-> total_score(game_state.players[p])])
           /\ winner(Enter) = get_winner(Enter)

\* The game is over, players 1 and 2 share the highest score, above player 0,
\* and the winner is player 1.
C19_Witness ==
    /\ game_state.phase = GAME_OVER
    /\ calculate_all_scores(Enter)[1] = calculate_all_scores(Enter)[2]
    /\ calculate_all_scores(Enter)[0] < calculate_all_scores(Enter)[1]
    /\ get_winner(Enter) = 1
    /\ winner(Enter) = 1

\* Calling the query leaves the GameState as it was, and a second call right
\* after the first returns the same answer.
Repeatable(first, second) ==
    /\ first.gs = Enter
    /\ second.gs = Enter
    /\ second.ret = first.ret

C21_SameActionSameState ==
    \A p \in PlayerIndexes, suit \in SuitInputs :
        \A card \in Range(game_state.cards_to_process) :
            \A one, other \in PlaceShuffles(game_state) :
                place_card(Enter, p, card, suit, one)
                    = place_card(Enter, p, card, suit, other)

\* The GameState of test_active_bidders: the default fields, the players, and
\* every player but the last marked as passed.
OneBidderLeft ==
    [NewGameState EXCEPT
        !.players = [p \in PlayerIndexes |->
                        [NewPlayer EXCEPT !.has_passed = p < NumPlayers - 1]]]

\* C22: is_bidding_complete is True on a GameState in which all players but
\* one have has_passed = true: on the GameState of the test (default fields),
\* and on every state of the game with one player left.
C22_BiddingCompleteWithOneLeft ==
    /\ Cardinality(active_bidders(OneBidderLeft)) = 1
    /\ is_bidding_complete(OneBidderLeft)
    /\ Cardinality(active_bidders(Enter)) = 1 => is_bidding_complete(Enter)

\* The first player after actor, in cyclic player order, who has not passed.
NextNotPassed(gs, actor) ==
    LET at(k) == (actor + k) % NumPlayers
        k == CHOOSE k \in 1..NumPlayers :
                 /\ ~gs.players[at(k)].has_passed
                 /\ \A j \in 1..(k - 1) : gs.players[at(j)].has_passed
    IN at(k)

\* C23: after a successful submit_bid below 5, or a successful submit_pass
\* that leaves two or more players active, current_player_index is the first
\* player after the actor in cyclic player order whose has_passed is false,
\* and the phase is still Bidding.
C23_TurnGoesToNextNotPassed ==
    (\/ Accepts("submit_bid") /\ last.amount < MaxBid
     \/ Accepts("submit_pass") /\ ~AuctionEnded(game_state)) =>
        /\ game_state.phase = BIDDING
        /\ Cardinality(active_bidders(game_state)) >= 2
        /\ game_state.current_player_index =
               NextNotPassed(game_state, last.player)

\* The bid was made by the player before one who has passed: the turn skips
\* the passed player.
C23_Witness ==
    /\ Accepts("submit_bid") /\ last.amount < MaxBid
    /\ game_state.players[(last.player + 1) % NumPlayers].has_passed
    /\ game_state.current_player_index = (last.player + 2) % NumPlayers

\* s without the card (the cards of a game are all different).
Without(s, card) ==
    LET keep(c) == c # card IN SelectSeq(s, keep)

\* C24: a successful place_card appends the card to the top of the chosen
\* tower of the auction winner and removes exactly that card from
\* cards_to_process; every other tower of every player, every teardown pile,
\* the deck and the discard pile are unchanged when cards remain to process,
\* and the building phase is ended in that same call exactly when the placed
\* card was the last one.
C24_PlaceCardFrame ==
    \A p \in PlayerIndexes, suit \in Suits :
        \A card \in Range(game_state.cards_to_process) :
            \A shuffled \in PlaceShuffles(game_state) :
                LET r == place_card(Enter, p, card, suit, shuffled)
                    remain == Len(r.gs.cards_to_process) > 0
                IN r.ret =>
                    /\ p = game_state.auction_winner_index
                    /\ TowerOf(r.gs, p, suit)
                           = Append(TowerOf(game_state, p, suit), card)
                    /\ r.gs.cards_to_process
                           = Without(game_state.cards_to_process, card)
                    /\ remain =>
                           /\ \A q \in PlayerIndexes, t \in Suits :
                                  (q # p \/ t # suit) =>
                                      TowerOf(r.gs, q, t)
                                          = TowerOf(game_state, q, t)
                           /\ \A q \in PlayerIndexes :
                                  r.gs.players[q].tear_down_pile
                                      = game_state.players[q].tear_down_pile
                           /\ r.gs.deck = game_state.deck
                           /\ r.gs.discard_pile = game_state.discard_pile
                           /\ r.gs.phase = BUILDING
                    /\ Called(r.gs, "end_building_phase") <=> ~remain
                    /\ ~remain <=> Len(game_state.cards_to_process) = 1

\* A card was placed on top of a standing tower and the winner holds more.
C24_Witness ==
    /\ Accepts("place_card")
    /\ game_state.phase = BUILDING
    /\ Len(game_state.cards_to_process) > 0
    /\ Len(TowerOf(game_state, last.player, last.suit)) >= 2
    /\ top_card(TowerOf(game_state, last.player, last.suit)) = last.card

\* The fields of the GameState other than the players.
Table(gs) == [gs EXCEPT !.players = <<>>]

\* C25: a successful tear_down_tower moves every card of the chosen tower to
\* the end of the auction winner's teardown pile and leaves that tower empty,
\* and changes nothing else: the phase stays Building and cards_to_process,
\* the turn pointer, the deck, the discard pile and all other towers are
\* unchanged.
C25_TearDownFrame ==
    \A p \in PlayerIndexes, suit \in Suits :
        LET r == tear_down_tower(Enter, p, suit)
            before == game_state.players[p]
            after == r.gs.players[p]
        IN r.ret =>
            /\ p = game_state.auction_winner_index
            /\ Len(before.towers[suit]) > 0
            /\ after.tear_down_pile
                   = before.tear_down_pile \o before.towers[suit]
            /\ after.towers[suit] = <<>>
            /\ \A t \in Suits \ {suit} : after.towers[t] = before.towers[t]
            /\ after.current_bid = before.current_bid
            /\ after.has_passed = before.has_passed
            /\ \A q \in PlayerIndexes \ {p} :
                   r.gs.players[q] = game_state.players[q]
            /\ Table(r.gs) = Table(Enter)
            /\ r.gs.phase = BUILDING

\* A second teardown: the pile held cards before the tower of two or more
\* went onto it, and the winner still holds a card.
C25_Witness ==
    /\ Accepts("tear_down_tower")
    /\ game_state.phase = BUILDING
    /\ Len(game_state.cards_to_process) > 0
    /\ Len(game_state.players[last.player].tear_down_pile) >= 3
    /\ \E s \in Suits : Len(TowerOf(game_state, last.player, s)) > 0

\* A round has been started from a deck of n cards on entry.
NewRoundFrom(g, n, round_number) ==
    /\ Called(g, "start_new_round")
    /\ g.phase = BIDDING
    /\ g.round_number = round_number + 1
    /\ Len(g.display_cards) = Min(DisplayCount, n)
    /\ Len(g.deck) = n - Min(DisplayCount, n)

\* C26: when the building phase ends (the winner places the last card held):
\* with the deck and the discard pile empty the phase becomes GameOver and no
\* round is started; with the deck empty and the discard pile not, the discard
\* pile is recycled into the deck and a new round is started; with the deck
\* not empty a new round is started and nothing is recycled.
C26_EndOfBuilding ==
    \A p \in PlayerIndexes, suit \in Suits :
        \A card \in Range(game_state.cards_to_process) :
            \A shuffled \in PlaceShuffles(game_state) :
                LET r == place_card(Enter, p, card, suit, shuffled)
                    g == r.gs
                    deck == game_state.deck
                    discard == game_state.discard_pile
                IN (r.ret /\ Len(game_state.cards_to_process) = 1) =>
                    /\ Called(g, "end_building_phase")
                    /\ (deck = <<>> /\ discard = <<>>) =>
                           /\ g.phase = GAME_OVER
                           /\ ~Called(g, "start_new_round")
                           /\ g.round_number = game_state.round_number
                           /\ g.display_cards = game_state.display_cards
                           /\ g.deck = <<>> /\ g.discard_pile = <<>>
                    /\ (deck = <<>> /\ discard # <<>>) =>
                           /\ g.discard_pile = <<>>
                           /\ Range(g.deck) \cup Range(g.display_cards)
                                  = Range(discard)
                           /\ NewRoundFrom(g, Len(discard),
                                           game_state.round_number)
                    /\ deck # <<>> =>
                           /\ g.discard_pile = discard
                           /\ g.deck \o Reverse(g.display_cards) = deck
                           /\ NewRoundFrom(g, Len(deck), game_state.round_number)

\* The discard pile of several cards has been recycled and a round dealt from
\* it.
C26_Witness ==
    /\ Accepts("place_card")
    /\ Called(game_state, "refill_deck_from_discard")
    /\ game_state.phase = BIDDING
    /\ game_state.discard_pile = <<>>
    /\ Len(game_state.display_cards) >= 3

\* The other two ends of a building phase: the game is over; a round is dealt
\* from what the deck still held.
C26_GameOverReached ==
    /\ Accepts("place_card")
    /\ Called(game_state, "end_building_phase")
    /\ game_state.phase = GAME_OVER
C26_DeckLeftReached ==
    /\ Accepts("place_card")
    /\ Called(game_state, "end_building_phase")
    /\ ~Called(game_state, "refill_deck_from_discard")
    /\ game_state.phase = BIDDING

\* The states start_new_round is entered with: that of the program, and the
\* ones its callers make of it on the way (end_auction has discarded the
\* display row; end_building_phase has recycled the discard pile).
RoundEntries ==
    {Enter, Fields(discard_display_cards(Enter))}
    \cup (IF Enter.deck = <<>>
          THEN {refill_deck_from_discard(Enter, shuffled).gs :
                    shuffled \in Shuffles(Enter.discard_pile)}
          ELSE {})

\* C27: after start_new_round every player's current_bid is none and
\* has_passed is false, current_high_bid is 0, high_bidder_index and
\* auction_winner_index are none, and the display row holds the last
\* min(5, size of the deck) cards of the deck, last card first; with no card
\* dealt the phase is GameOver and round_number is unchanged, otherwise the
\* phase is Bidding and round_number is one more.
C27_NewRound ==
    \A gs \in RoundEntries :
        LET g == start_new_round(gs)
            n == Len(gs.deck)
            k == IF n < 5 THEN n ELSE 5
        IN /\ \A p \in PlayerIndexes :
                  /\ g.players[p].current_bid = None
                  /\ g.players[p].has_passed = FALSE
           /\ g.current_high_bid = 0
           /\ g.high_bidder_index = None
           /\ g.auction_winner_index = None
           /\ Len(g.display_cards) = k
           /\ \A i \in 1..k : g.display_cards[i] = gs.deck[n + 1 - i]
           /\ g.deck = SubSeq(gs.deck, 1, n - k)
           /\ IF k = 0
              THEN g.phase = GAME_OVER /\ g.round_number = gs.round_number
              ELSE g.phase = BIDDING /\ g.round_number = gs.round_number + 1

\* A round dealt from a deck of more cards than a display row holds: one card
\* is left in the deck.
C27_Witness ==
    /\ RoundStarted(game_state)
    /\ game_state.phase = BIDDING
    /\ Len(game_state.display_cards) = 5
    /\ Len(game_state.deck) >= 1
    /\ game_state.round_number >= 3

\* start_new_round is entered with an empty deck.
C27_NothingToDeal ==
    /\ game_state.phase = BUILDING
    /\ game_state.deck = <<>>

\* The cards of a game, wherever they are.
CardsIn(gs) ==
    Range(gs.deck) \cup Range(gs.discard_pile) \cup Range(gs.display_cards)
    \cup Range(gs.cards_to_process)
    \cup UNION {Range(gs.players[p].tear_down_pile) : p \in PlayerIndexes}
    \cup UNION {Range(gs.players[p].towers[s]) : p \in PlayerIndexes, s \in Suits}

\* What refill_deck_from_discard does to the deck and the discard pile.
Recycled(gs, r) ==
    IF gs.discard_pile = <<>>
    THEN r.ret = FALSE /\ r.gs = gs
    ELSE /\ r.ret = TRUE
         /\ Len(r.gs.deck) = Len(gs.discard_pile)
         /\ Range(r.gs.deck) = Range(gs.discard_pile)
         /\ r.gs.discard_pile = <<>>
         /\ r.gs = [gs EXCEPT !.deck = r.gs.deck, !.discard_pile = <<>>]

NoWinner(gs) ==
    /\ gs.high_bidder_index = None
    /\ Cardinality(active_bidders(gs)) # 1

\* C29: end_auction without an explicit winner, in a state with no high
\* bidder and a number of players who have not passed other than one, voids
\* the round: the display row goes to the end of the discard pile and a new
\* round is started (bids, passed flags and auction pointers reset, a fresh
\* display row dealt, phase Bidding or GameOver when nothing could be dealt).
C29_VoidStartsNewRound ==
    NoWinner(Enter) =>
        LET g == end_auction(Enter, None)
            n == Len(Enter.deck)
        IN /\ SubSeq(g.discard_pile, 1, Len(Enter.discard_pile))
                  = Enter.discard_pile
           /\ Range(Enter.display_cards) \subseteq Range(g.discard_pile)
           /\ Called(g, "start_new_round")
           /\ \A p \in PlayerIndexes :
                  /\ g.players[p].current_bid = None
                  /\ g.players[p].has_passed = FALSE
           /\ g.current_high_bid = 0
           /\ g.high_bidder_index = None
           /\ g.auction_winner_index = None
           /\ Len(g.display_cards) = Min(DisplayCount, n)
           /\ g.phase = IF n = 0 THEN GAME_OVER ELSE BIDDING

\* Some tower of the player accepts the card.
Accepted(gs, p, card) ==
    \E s \in Suits : can_place(gs.players[p].towers[s], card)

\* The place of a suit in the order of TowerSuit.
SuitOrder(suit) == CHOOSE i \in 1..Len(TowerSuit) : TowerSuit[i] = suit

\* C30: auto_tear_down_if_stuck, given a card held by the auction winner that
\* none of the winner's towers accepts, tears down the non-empty tower of
\* least height, the first in suit order among equals, which is a tower whose
\* teardown gives the smallest penalty, and returns its suit; given a held
\* card that some tower of the winner accepts, it changes nothing and returns
\* none.
C30_StuckTearsDownLeast ==
    game_state.phase = BUILDING =>
        \A card \in Range(game_state.cards_to_process) :
            LET p == game_state.auction_winner_index
                r == auto_tear_down_if_stuck(Enter, p, card)
                before == game_state.players[p]
                after == r.gs.players[p]
                standing == {s \in Suits : Len(before.towers[s]) > 0}
                PenaltyAfter(s) ==
                    calculate_tear_down_penalty(
                        Len(before.tear_down_pile \o before.towers[s]))
            IN IF Accepted(Enter, p, card)
               THEN r.ret = NoSuit /\ r.gs = Enter
               ELSE /\ r.ret \in standing
                    /\ \A t \in standing :
                           /\ Len(before.towers[r.ret]) <= Len(before.towers[t])
                           /\ PenaltyAfter(r.ret) <= PenaltyAfter(t)
                           /\ Len(before.towers[t]) = Len(before.towers[r.ret])
                                  => SuitOrder(r.ret) <= SuitOrder(t)
                    /\ after.towers[r.ret] = <<>>
                    /\ after.tear_down_pile
                           = before.tear_down_pile \o before.towers[r.ret]
                    /\ \A t \in Suits \ {r.ret} :
                           after.towers[t] = before.towers[t]
                    /\ Table(r.gs) = Table(Enter)

\* The helper has torn down a tower of one card that is not the first tower
\* standing: the sand tower, of two cards, is left.
C30_Witness ==
    /\ Accepts("auto_tear_down_if_stuck")
    /\ last.suit # "sand"
    /\ Len(TowerOf(game_state, last.player, "sand")) = 2
    /\ TowerOf(game_state, last.player, last.suit) = <<>>
    /\ Len(game_state.players[last.player].tear_down_pile) = 1
    /\ game_state.cards_to_process = <<HeldCard>>

\* C31: the player on turn who has not passed can bid 0 (bid to discard) as
\* well as 1 to 5: at the start of an auction, when no bid has been made yet,
\* submit_bid with amount 0 is accepted.
C31_ZeroBidAccepted ==
    (/\ game_state.phase = BIDDING
     /\ game_state.high_bidder_index = None
     /\ game_state.current_high_bid = 0
     /\ ~game_state.players[game_state.current_player_index].has_passed)
    => submit_bid(Enter, game_state.current_player_index, 0).ret

\* Some call by some player is accepted.
SomeCallAccepted(gs) ==
    \E p \in PlayerIndexes :
        \/ \E amount \in 0..MaxBid : submit_bid(gs, p, amount).ret
        \/ submit_pass(gs, p).ret
        \/ \E suit \in Suits : tear_down_tower(gs, p, suit).ret
        \/ \E suit \in Suits, card \in Range(gs.cards_to_process) :
               \E shuffled \in PlaceShuffles(gs) :
                   place_card(gs, p, card, suit, shuffled).ret

\* C32: in every reachable state whose phase is not GameOver some call among
\* submit_bid, submit_pass, place_card and tear_down_tower by some player is
\* accepted: the game is never stuck in Bidding or Building.
C32_NeverStuck ==
    game_state.phase # GAME_OVER => SomeCallAccepted(Enter)

\* C33: in every reachable state whose phase is Building, auction_winner_index
\* is set and equals current_player_index, and cards_to_process is not empty.
C33_BuildingHasWinnerAndCards ==
    game_state.phase = BUILDING =>
        /\ game_state.auction_winner_index # None
        /\ game_state.auction_winner_index = game_state.current_player_index
        /\ Len(game_state.cards_to_process) > 0

\* C33 but for the auctions resolved for a bid of 0 or none: in every other
\* Building state the winner is set, is on turn, and holds a card.
C33_ExceptAfterZeroBid ==
    (game_state.phase = BUILDING /\ game_state.auction_winner_index # None) =>
        /\ game_state.auction_winner_index = game_state.current_player_index
        /\ Len(game_state.cards_to_process) > 0

\* C34: in every reachable state whose phase is Bidding at least two players
\* have not passed and the player on turn is one of them, so the player on
\* turn can always pass.
C34_TwoBiddersAndTurnActive ==
    game_state.phase = BIDDING =>
        /\ Cardinality({p \in PlayerIndexes :
                           ~game_state.players[p].has_passed}) >= 2
        /\ ~game_state.players[game_state.current_player_index].has_passed
        /\ submit_pass(Enter, game_state.current_player_index).ret

\* A pass has left exactly two players in the auction, one of them with a
\* bid standing; the turn is with the other, who can pass.
C34_Witness ==
    /\ Accepts("submit_pass")
    /\ game_state.phase = BIDDING
    /\ Cardinality(active_bidders(game_state)) = 2
    /\ game_state.high_bidder_index \in active_bidders(game_state)
    /\ game_state.current_player_index # game_state.high_bidder_index
    /\ game_state.players[last.player].has_passed

\* C35: when an auction in which a bid was accepted ends, the auction winner
\* is the high bidder and the winner's current_bid is current_high_bid; and
\* during Bidding the high bidder is not the player on turn and has not
\* passed.
C35_HighBidderWins ==
    /\ (game_state.phase = BIDDING /\ game_state.high_bidder_index # None) =>
           /\ game_state.high_bidder_index # game_state.current_player_index
           /\ ~game_state.players[game_state.high_bidder_index].has_passed
           /\ game_state.players[game_state.high_bidder_index].current_bid
                  = game_state.current_high_bid
    /\ (AuctionEnded(game_state) /\ game_state.high_bidder_index # None) =>
           /\ game_state.phase = BUILDING
           /\ game_state.auction_winner_index = game_state.high_bidder_index
           /\ game_state.players[game_state.auction_winner_index].current_bid
                  = game_state.current_high_bid

\* The last pass has ended an auction in which a bid of 1 was raised to 2:
\* the player who bid 2 is the winner.
C35_Witness ==
    /\ Accepts("submit_pass")
    /\ AuctionEnded(game_state)
    /\ game_state.current_high_bid = 2
    /\ game_state.auction_winner_index # None
    /\ game_state.players[game_state.auction_winner_index].current_bid = 2
    /\ \E q \in PlayerIndexes : game_state.players[q].current_bid = 1

\* C36: in every reachable Building state, if no tower of the auction winner
\* accepts a card of cards_to_process, then all five towers of the winner are
\* non-empty, and after the teardown of any one of them place_card of that
\* card on the emptied tower is accepted: every pending card can be placed
\* after at most one teardown.
C36_OneTearDownUnblocks ==
    (game_state.phase = BUILDING /\ game_state.auction_winner_index # None) =>
        LET w == game_state.auction_winner_index
        IN \A card \in Range(game_state.cards_to_process) :
               ~Accepted(Enter, w, card) =>
                   \A s \in Suits :
                       LET torn == tear_down_tower(Enter, w, s)
                       IN /\ Len(game_state.players[w].towers[s]) > 0
                          /\ torn.ret
                          /\ \A shuffled \in PlaceShuffles(torn.gs) :
                                 place_card(Fields(torn.gs), w, card, s,
                                            shuffled).ret

\* The held card stands alone on a tower torn down for it; the four other
\* towers stand, so no tower accepted it before.
C36_Witness ==
    /\ Accepts("place_card")
    /\ last.card = HeldCard
    /\ TowerOf(game_state, last.player, last.suit) = <<HeldCard>>
    /\ \A s \in Suits : Len(TowerOf(game_state, last.player, s)) > 0
    /\ Len(game_state.players[last.player].tear_down_pile) >= 2

\* C37: start_new_round leaves current_player_index unchanged, so that when a
\* building phase ends and a new round starts, the first player to act in the
\* new auction is the winner of the auction just finished.
C37_WinnerOpensNextRound ==
    /\ \A gs \in RoundEntries :
           start_new_round(gs).current_player_index = gs.current_player_index
    /\ (game_state.phase = BUILDING /\ game_state.auction_winner_index # None) =>
           \A suit \in Suits, card \in Range(game_state.cards_to_process) :
               \A shuffled \in PlaceShuffles(game_state) :
                   LET w == game_state.auction_winner_index
                       r == place_card(Enter, w, card, suit, shuffled)
                   IN (r.ret /\ Called(r.gs, "start_new_round")) =>
                          /\ r.gs.current_player_index = w
                          /\ r.gs.phase = BIDDING =>
                                 submit_pass(Fields(r.gs), w).ret

\* A winner other than the opener of the game has placed the last card held
\* and is on turn in the new auction.
C37_Witness ==
    /\ Accepts("place_card")
    /\ RoundStarted(game_state)
    /\ game_state.phase = BIDDING
    /\ last.player # 0
    /\ game_state.current_player_index = last.player

\* The number of places of s that hold the card.
Count(s, card) == Cardinality({i \in 1..Len(s) : s[i] = card})

\* The number of places of the game that hold the card.
Occurrences(gs, card) ==
    Count(gs.deck, card) + Count(gs.display_cards, card)
    + Count(gs.discard_pile, card) + Count(gs.cards_to_process, card)
    + SumOver(PlayerIndexes,
              [p \in PlayerIndexes |->
                  Count(gs.players[p].tear_down_pile, card)
                  + SumOver(Suits, [s \in Suits |->
                                       Count(gs.players[p].towers[s], card)])])

\* C38: in every reachable state each card of the game is in exactly one
\* place among the deck, the display row, the discard pile, cards_to_process,
\* the towers and the teardown piles: no action duplicates a card, leaves it
\* in two places or loses it.
C38_EachCardInOnePlace ==
    /\ CardsIn(game_state) \in {Range(LongDeck), Range(ShortDeck)}
    /\ \A card \in CardsIn(game_state) : Occurrences(game_state, card) = 1

\* After a recycle, with cards in the deck, on display, on towers and torn
\* down.
C38_Witness ==
    /\ Called(game_state, "refill_deck_from_discard")
    /\ game_state.phase = BIDDING
    /\ Len(game_state.deck) > 0
    /\ \E p \in PlayerIndexes : Len(game_state.players[p].tear_down_pile) > 0
    /\ \E p \in PlayerIndexes, s \in Suits : Len(TowerOf(game_state, p, s)) > 0

\* C39: once the phase is GameOver every submit_bid, submit_pass, place_card
\* and tear_down_tower is rejected and leaves the state as it is, so that the
\* phase stays GameOver and the scores and the winner never change again.
C39_GameOverIsFinal ==
    game_state.phase = GAME_OVER =>
        \A p \in PlayerIndexes :
            /\ \A amount \in 0..(MaxBid + 1) :
                   LET r == submit_bid(Enter, p, amount)
                   IN ~r.ret /\ r.gs = Enter
            /\ LET r == submit_pass(Enter, p)
               IN ~r.ret /\ r.gs = Enter
            /\ \A suit \in Suits :
                   /\ LET r == tear_down_tower(Enter, p, suit)
                      IN ~r.ret /\ r.gs = Enter
                   /\ \A card \in CardsIn(game_state) :
                          \A shuffled \in Shuffles(game_state.discard_pile) :
                              LET r == place_card(Enter, p, card, suit, shuffled)
                              IN ~r.ret /\ r.gs = Enter

\* The game is over with the last winner's tower standing and scoring.
C39_Witness ==
    /\ game_state.phase = GAME_OVER
    /\ Accepts("place_card")
    /\ game_state.auction_winner_index = last.player
    /\ Len(TowerOf(game_state, last.player, last.suit)) > 0
    /\ calculate_player_score(game_state.players[last.player]) > 0

\* C40: the two scoring implementations agree in every reachable state:
\* PlayerState.total_score equals calculate_player_score for every player,
\* and at GameOver GameState.winner is the player at the index get_winner
\* returns.
C40_ScoringsAgree ==
    /\ \A p \in PlayerIndexes :
           total_score(game_state.players[p])
               = calculate_player_score(game_state.players[p])
    /\ game_state.phase = GAME_OVER => winner(Enter) = get_winner(Enter)

\* The game is over; the builder has a capped tower and has torn cards down,
\* and is not the winner.
C40_Witness ==
    /\ game_state.phase = GAME_OVER
    /\ \E s \in Suits : is_capped(TowerOf(game_state, 0, s))
    /\ Len(game_state.players[0].tear_down_pile) >= 2
    /\ total_score(game_state.players[0]) < 0
    /\ winner(Enter) # 0

====
